---- MODULE Spec2Model ----
(***************************************************************************)
(* A model of the streaming reconciliation loop of                         *)
(* api_utils/utils_ext/stream.py: use_stream_response (the poll loop, the  *)
(* accumulation of reason/body text, the tool-boundary detector, the three *)
(* watchdogs, the thinking-only DOM recovery) and clear_stream_queue (the  *)
(* drain run from the generator's finally block).                          *)
(*                                                                         *)
(* Text is a sequence of characters.  The alphabet keeps one character of  *)
(* every class TOOL_STRUCTURE_PATTERN distinguishes:                       *)
(*   "LF" newline, "SP" blank, "BT" backtick, "LT" '<', "GT" '>',          *)
(*   "a" a letter or digit, "x" any other printable character.             *)
(***************************************************************************)
EXTENDS Integers, Sequences, FiniteSets, TLC

VARIABLES
    queue,                  \* STREAM_QUEUE: items put by the producer, FIFO
    produced,               \* how many items the producer has put so far
    pc,                     \* where the generator stands
    path,                   \* the way the latest loop iteration went
    outcome,                \* how the generator left the try block
    events,                 \* everything yielded to the consumer, in order
    acc_reason_state,
    acc_body_state,
    boundary_buffer,
    force_body_mode,
    split_index,
    boundary_transitions,
    logical,                \* every reason value received so far, concatenated
    empty_count,
    received_items_count,
    silent_for,             \* time.time() - last_packet_time, in sleep ticks
    total_empty,            \* empty polls of the whole session
    has_content,
    stale_done_ignored,
    accumulated_reason_len,
    accumulated_body_len,   \* len(accumulated_body)
    wait_i,                 \* polls of the DOM probe made by the recovery
    reload_count,           \* calls of page_instance.reload()
    page,                   \* the page argument is not None
    initial_wait_limit,     \* int(timeout * 10)
    stream_start_time,
    quota_exceeded,         \* GlobalState.IS_QUOTA_EXCEEDED as last read
    shutting_down,          \* GlobalState.IS_SHUTTING_DOWN.is_set() as last read
    client_gone,            \* the client had left at the latest empty poll
    drain_runs,             \* completed runs of clear_stream_queue
    drained_items,          \* items discarded by clear_stream_queue
    m_cut,                  \* merge study: the pieces of the logical text
    m_fed,                  \* merge study: pieces fed so far
    m_delta,                \* merge study: state when fed as deltas
    m_cumul,                \* merge study: state when fed as snapshots
    f_index,                \* format_streaming_chunks: the index argument
    parsed_call,            \* format_streaming_chunks: the ParsedFunctionCall
    chunk_size,             \* format_streaming_chunks: the chunk_size argument
    chunks,                 \* format_streaming_chunks: the list returned
    pending_calls,          \* CallIdManager._pending_calls
    openai_tools,           \* convert_tools: the argument
    declarations,           \* convert_tools: the list returned
    convert_result,         \* convert_tools: "returned" or the error raised
    session                 \* which call of use_stream_response this is

textVars == <<acc_reason_state, acc_body_state, boundary_buffer, force_body_mode,
              split_index, boundary_transitions, logical>>
pollVars == <<empty_count, received_items_count, silent_for, total_empty>>
tallyVars == <<has_content, stale_done_ignored, accumulated_reason_len,
               accumulated_body_len>>
sideVars == <<wait_i, reload_count>>
argVars == <<page, initial_wait_limit, stream_start_time>>
flagVars == <<quota_exceeded, shutting_down>>
drainVars == <<drain_runs, drained_items>>
mergeVars == <<m_cut, m_fed, m_delta, m_cumul>>
callVars == <<f_index, parsed_call, chunk_size, chunks, pending_calls>>
toolVars == <<openai_tools, declarations, convert_result>>
vars == <<queue, produced, pc, path, outcome, events, textVars, pollVars, tallyVars,
          sideVars, argVars, flagVars, client_gone, drainVars, mergeVars, callVars,
          toolVars, session>>

----------------------------------------------------------------------------
(* Bounds of the model.  The first five stand for numbers of the program   *)
(* that are too large to enumerate; the formulas below name them and never *)
(* rely on their values.                                                    *)

\* the 100 of boundary_buffer[-100:]
WindowLen == 3
\* max_empty_retries (900)
max_empty_retries == 4
\* silence_detection_threshold (5.0 s) in sleeps of 0.1 s
silence_detection_threshold == 2
\* min_items_before_silence_check (10)
min_items_before_silence_check == 2
\* wait_attempts (20)
wait_attempts == 2
\* items the producer puts in one run
MaxItems == 3
\* items waiting in the queue at one time
MaxQueue == 1
\* pieces of one logical text in the merge study
MaxPieces == 3
\* fragments of one script in the text study
MaxScript == 3
\* calls of clear_stream_queue in the drain study
MaxCalls == 2
\* items in the source when the drain study starts
MaxResidue == 2
\* the largest chunk_size tried below the default
MaxChunkSize == 3
\* the default chunk_size (50), longer than every serialisation tried
DefaultChunkSize == 20
\* tools in one list given to convert_tools
MaxTools == 3

----------------------------------------------------------------------------
(* Text helpers: Python's str operations on sequences of characters.       *)

Min(a, b) == IF a <= b THEN a ELSE b
Max(a, b) == IF a >= b THEN a ELSE b

\* s[:k]
SliceTo(s, k) ==
    IF k >= 0 THEN SubSeq(s, 1, Min(k, Len(s)))
    ELSE SubSeq(s, 1, Max(0, Len(s) + k))

\* s[k:]
SliceFrom(s, k) ==
    IF k >= 0 THEN SubSeq(s, Min(k, Len(s)) + 1, Len(s))
    ELSE SubSeq(s, Max(0, Len(s) + k) + 1, Len(s))

\* s[-n:] for n > 0
LastChars(s, n) == SliceFrom(s, 0 - n)

\* s.startswith(p)
StartsWith(s, p) == Len(p) <= Len(s) /\ SubSeq(s, 1, Len(p)) = p

----------------------------------------------------------------------------
(* TOOL_STRUCTURE_PATTERN, read left to right:                             *)
(*   anchor  start of the text, or a newline                               *)
(*   blanks  any run of whitespace (newlines included)                     *)
(*   fence   optionally: three backticks, any run of letters or digits,    *)
(*           any run of whitespace                                         *)
(*   tag     '<', one or more name characters (letter, digit, '_', '-'),   *)
(*           then one whitespace character or '>'                          *)
(* and pattern.search(text): the leftmost position where a match starts.   *)

IsSpace(c) == c \in {"LF", "SP"}
IsAlnum(c) == c = "a"
IsNameChar(c) == c \in {"a", "_", "-"}

\* every character of t[i..j-1] satisfies the class
AllSpace(t, i, j) == \A k \in i..(j - 1) : IsSpace(t[k])
AllAlnum(t, i, j) == \A k \in i..(j - 1) : IsAlnum(t[k])
AllName(t, i, j) == \A k \in i..(j - 1) : IsNameChar(t[k])

\* the tag part matches at position k
TagAt(t, k) ==
    /\ k <= Len(t)
    /\ t[k] = "LT"
    /\ \E m \in (k + 2)..Len(t) :
          /\ AllName(t, k + 1, m)
          /\ (IsSpace(t[m]) \/ t[m] = "GT")

\* the fence part followed by the tag part, at position k
FenceTagAt(t, k) ==
    /\ k + 2 <= Len(t)
    /\ t[k] = "BT" /\ t[k + 1] = "BT" /\ t[k + 2] = "BT"
    /\ \E p \in (k + 3)..(Len(t) + 1) :
          /\ AllAlnum(t, k + 3, p)
          /\ \E q \in p..(Len(t) + 1) : AllSpace(t, p, q) /\ TagAt(t, q)

\* blanks, optional fence, tag: matches at position j
BodyAt(t, j) ==
    \E k \in j..(Len(t) + 1) :
        AllSpace(t, j, k) /\ (TagAt(t, k) \/ FenceTagAt(t, k))

\* the whole pattern matches starting at position i (1-based)
MatchAt(t, i) ==
    \/ i = 1 /\ BodyAt(t, 1)
    \/ i <= Len(t) /\ t[i] = "LF" /\ BodyAt(t, i + 1)

HasMatch(t) == \E i \in 1..Len(t) : MatchAt(t, i)

\* match.start() of pattern.search(t), 0-based; only used when HasMatch(t)
MatchStart(t) ==
    (CHOOSE i \in 1..Len(t) : MatchAt(t, i) /\ \A j \in 1..(i - 1) : ~MatchAt(t, j)) - 1

----------------------------------------------------------------------------
(* The accumulation reconciler (stream.py, "1. Update Accumulators").       *)

\* the prefix test the wrong way round (acc.startswith(p)): with it a
\* repeated piece would cut the accumulated text back, and C4 fails
IsSnapshot_Reversed(acc, p) == p # <<>> /\ acc # <<>> /\ StartsWith(acc, p)

\* the test "p and acc and p.startswith(acc)"
IsSnapshot(acc, p) == p # <<>> /\ acc # <<>> /\ StartsWith(p, acc)

\* a reconciler that only appends: with it snapshots pile up, and C3 fails
MergeText_Append(acc, p) == acc \o p

\* a reconciler that discards a value the accumulated text begins with:
\* with it C29 fails
MergeText_DropsPrefix(acc, p) ==
    IF IsSnapshot(acc, p) THEN p
    ELSE IF StartsWith(acc, p) THEN acc
    ELSE acc \o p

\* the accumulated text after a fragment's field p was merged into acc
MergeText(acc, p) == IF IsSnapshot(acc, p) THEN p ELSE acc \o p

\* new_reason_delta: in the snapshot branch the slice is taken with the
\* length of acc_reason_state AFTER it was replaced by p_reason
NewReasonDelta(acc, p) ==
    IF IsSnapshot(acc, p) THEN SliceFrom(p, Len(MergeText(acc, p))) ELSE p

----------------------------------------------------------------------------
(* The boundary detector (stream.py, "2. Apply Boundary Logic").  The       *)
(* operators take the accumulated reason text after the merge and the       *)
(* effective delta, and read the mode, split index and window of the state. *)

text_to_check(delta) == boundary_buffer \o delta

\* a detector without the latch on force_body_mode: with it a later marker
\* moves the split, and C5 fails
Fires_Rescan(delta) == HasMatch(text_to_check(delta))

\* the detector fires on this fragment
Fires(delta) == ~force_body_mode /\ HasMatch(text_to_check(delta))

\* an offset counted from the start of the new delta: with it C33 fails
AbsoluteSplitIndex_InDelta(acc, delta) ==
    MatchStart(text_to_check(delta)) - Len(boundary_buffer)

\* absolute_split_index
AbsoluteSplitIndex(acc, delta) ==
    (Len(acc) - Len(text_to_check(delta))) + MatchStart(text_to_check(delta))

\* split_index after the fragment
NextSplitIndex(acc, delta) ==
    IF Fires(delta) THEN AbsoluteSplitIndex(acc, delta) ELSE split_index

\* force_body_mode after the fragment
NextMode(delta) == force_body_mode \/ HasMatch(text_to_check(delta))

\* boundary_buffer after the fragment
NextBuffer(delta) ==
    IF force_body_mode \/ HasMatch(text_to_check(delta))
    THEN boundary_buffer
    ELSE LastChars(text_to_check(delta), WindowLen)

\* a reason that is never cut at the split: with it C25 fails
EventReason_Whole(acc, delta) == acc

\* a reason that carries only the text new in this fragment while
\* thinking: with it the amended C26 fails
EventReason_DeltaOnly(acc, delta) ==
    IF NextMode(delta) THEN SliceTo(acc, NextSplitIndex(acc, delta)) ELSE delta

\* parsed_data["reason"] and parsed_data["body"] as yielded
EventReason(acc, delta) ==
    IF NextMode(delta) THEN SliceTo(acc, NextSplitIndex(acc, delta)) ELSE acc

\* a body that leaves out the reasoning text behind the split: with it
\* C32 fails
EventBody_NoOverflow(acc, accBody, delta) == accBody

\* a body that repeats the whole reasoning text: with it C38 fails
EventBody_WholeReason(acc, accBody, delta) ==
    IF NextMode(delta) THEN accBody \o acc ELSE accBody

EventBody(acc, accBody, delta) ==
    IF NextMode(delta)
    THEN accBody \o SliceFrom(acc, NextSplitIndex(acc, delta))
    ELSE accBody

----------------------------------------------------------------------------
(* Items of STREAM_QUEUE.  form tells what the producer put:                *)
(*   "none"     the termination sentinel None                               *)
(*   "wrapped"  a str, JSON of {"ts": ts, "data": {reason, body, done}}     *)
(*   "legacy"   a str, JSON of {reason, body, done} without the wrapper     *)
(*   "dict"     a dict {reason, body, done} put as an object                *)
(*   "text"     a str that json.loads rejects                               *)
(*   "badtype"  a dict whose "reason" is not text (JSON null, a number)     *)

Item(f, t, r, b, d) == [form |-> f, ts |-> t, reason |-> r, body |-> b, done |-> d]

Sentinel == Item("none", 0, <<>>, <<>>, FALSE)

\* the timestamp test the wrong way round: with it the residue of an
\* earlier session is processed, and C8 fails
IsStale_Inverted(it) == it.form = "wrapped" /\ it.ts > stream_start_time

\* line 177: data_ts < stream_start_time, only reached for the wrapped form
IsStale(it) == it.form = "wrapped" /\ it.ts < stream_start_time

\* line 188: isinstance(actual_data, dict) after the unwrapping of 170-185
IsFragment(it) == it.form \in {"wrapped", "legacy", "dict"} /\ ~IsStale(it)

\* line 289: a str is left, nothing is done with it
IsDropped(it) == it.form = "text"

\* lines 197-202 raise TypeError / AttributeError on a non-text reason
IsRaising(it) == it.form = "badtype"

\* what the consumer receives
Event(k, r, b, d) == [kind |-> k, reason |-> r, body |-> b, done |-> d]

\* a terminal dict without done = true: with it C2 fails
CauseEvent_NotDone(cause) == Event(cause, <<>>, <<>>, FALSE)

\* the four terminal dicts built by the loop itself: their "reason" is the
\* cause tag (kept in kind), their "body" is empty
CauseEvent(cause) == Event(cause, <<>>, <<>>, TRUE)

----------------------------------------------------------------------------
(* The inputs.                                                              *)

\* items of the control runs
CtlItems ==
    { Sentinel,
      Item("wrapped", 0, <<"a">>, <<>>, FALSE),
      Item("wrapped", 1, <<"a">>, <<>>, FALSE),
      Item("wrapped", 1, <<>>, <<>>, TRUE),
      Item("wrapped", 1, <<"a">>, <<>>, TRUE),
      Item("legacy", 0, <<>>, <<"x">>, FALSE),
      Item("dict", 0, <<>>, <<"x">>, TRUE),
      Item("text", 0, <<>>, <<>>, FALSE),
      Item("badtype", 0, <<>>, <<>>, FALSE) }

\* items of the liveness runs: one of every kind the loop tells apart
LiveItems ==
    { Sentinel,
      Item("wrapped", 0, <<"a">>, <<>>, FALSE),
      Item("wrapped", 1, <<"a">>, <<>>, FALSE),
      Item("wrapped", 1, <<>>, <<>>, TRUE),
      Item("text", 0, <<>>, <<>>, FALSE),
      Item("badtype", 0, <<>>, <<>>, FALSE) }

\* texts the DOM probe may return
DomTexts == { <<>>, <<"SP">>, <<"x">> }

\* dom_text and len(dom_text.strip()) > 0
NonBlank(t) == t # <<>> /\ \E k \in 1..Len(t) : ~IsSpace(t[k])

\* int(timeout * 10) for the timeouts tried
WaitLimits == {2, max_empty_retries + 1}

\* all sequences over S of length lo..hi
SeqsOf(S, lo, hi) == UNION { [1..k -> S] : k \in lo..hi }

\* reason values of the text study: plain text, a line end, a marker in one
\* piece and cut in three, the two-fragment stream of the fenced tool call
\* as a snapshot and as a delta
ReasonPieces ==
    { <<>>,
      <<"a">>,
      <<"a", "LF">>,
      <<"LF">>,
      <<"LT">>,
      <<"a", "GT">>,
      <<"LT", "a", "GT">>,
      <<"a", "LF", "BT", "BT", "BT", "a", "LF", "LT", "a", "SP">>,
      <<"BT", "BT", "BT", "a", "LF", "LT", "a", "SP">> }

\* items of the text study
TextItems ==
    { Item("dict", 0, r, <<>>, FALSE) : r \in ReasonPieces }
    \cup { Item("dict", 0, <<>>, <<"x">>, FALSE),
           Item("dict", 0, <<>>, <<"x", "x">>, FALSE),
           Item("dict", 0, <<>>, <<>>, TRUE) }

Scripts == SeqsOf(TextItems, 0, MaxScript)

\* pieces of the merge study, none empty
MergePieces == { <<"a">>, <<"a", "a">>, <<"x">>, <<"a", "x">>, <<"LF">> }

Cuts == SeqsOf(MergePieces, 1, MaxPieces)

\* the first k pieces of a cut, joined
RECURSIVE Joined(_, _)
Joined(cut, k) == IF k = 0 THEN <<>> ELSE Joined(cut, k - 1) \o cut[k]

----------------------------------------------------------------------------
(* The state after the locals of use_stream_response are initialised        *)
(* (lines 42-80).                                                           *)

InitLocals ==
    /\ acc_reason_state = <<>>
    /\ acc_body_state = <<>>
    /\ boundary_buffer = <<>>
    /\ force_body_mode = FALSE
    /\ split_index = -1
    /\ boundary_transitions = 0
    /\ logical = <<>>
    /\ empty_count = 0
    /\ received_items_count = 0
    /\ silent_for = 0
    /\ total_empty = 0
    /\ has_content = FALSE
    /\ stale_done_ignored = FALSE
    /\ accumulated_reason_len = 0
    /\ accumulated_body_len = 0
    /\ wait_i = 0
    /\ reload_count = 0
    /\ stream_start_time = 1
    /\ quota_exceeded = FALSE
    /\ shutting_down = FALSE
    /\ client_gone = FALSE
    /\ drain_runs = 0
    /\ drained_items = 0
    /\ events = <<>>
    /\ path = "start"
    /\ outcome = "running"

NoStudy ==
    /\ m_cut = <<>>
    /\ m_fed = 0
    /\ m_delta = <<>>
    /\ m_cumul = <<>>

\* a ResponseFormatter that has formatted nothing
NoChunks ==
    /\ chunks = <<>>
    /\ pending_calls = <<>>

\* a SchemaConverter that has converted nothing
NoDeclarations ==
    /\ declarations = <<>>
    /\ convert_result = "idle"

\* no ResponseFormatter call, no SchemaConverter call
NoCalls ==
    /\ f_index = 0
    /\ parsed_call = [name |-> "", arguments |-> <<>>]
    /\ chunk_size = 1
    /\ NoChunks
    /\ openai_tools = <<>>
    /\ NoDeclarations

\* a session with a live producer
Init ==
    /\ InitLocals
    /\ session = 1
    /\ NoStudy
    /\ NoCalls
    /\ pc = "loop"
    /\ queue = <<>>
    /\ produced = 0
    /\ page \in BOOLEAN
    /\ initial_wait_limit \in WaitLimits

\* the text study: the whole script is in the queue when the session starts
InitText ==
    /\ InitLocals
    /\ session = 1
    /\ NoStudy
    /\ NoCalls
    /\ pc = "loop"
    /\ queue \in Scripts
    /\ produced = Len(queue)
    /\ page = FALSE
    /\ initial_wait_limit = 2

\* the drain study: clear_stream_queue is called on a source that holds
\* any residue, outside a session
InitDrain ==
    /\ InitLocals
    /\ session = 1
    /\ NoStudy
    /\ NoCalls
    /\ pc = "drain"
    /\ queue \in SeqsOf(CtlItems, 0, MaxResidue)
    /\ produced = Len(queue)
    /\ page = FALSE
    /\ initial_wait_limit = 2

\* the merge study: no session, only the reconciler
InitMerge ==
    /\ InitLocals
    /\ session = 1
    /\ NoCalls
    /\ pc = "study"
    /\ queue = <<>>
    /\ produced = 0
    /\ page = FALSE
    /\ initial_wait_limit = 2
    /\ m_cut \in Cuts
    /\ m_fed = 0
    /\ m_delta = <<>>
    /\ m_cumul = <<>>

----------------------------------------------------------------------------
(* The environment: the producer.  The external signals (the two           *)
(* GlobalState flags, the client's connection) are inputs of the loop      *)
(* iteration that reads them; the variables keep what was last read.       *)

Put(S) ==
    /\ pc \in {"loop", "recovery", "drain"}
    /\ produced < MaxItems
    /\ Len(queue) < MaxQueue
    /\ \E it \in S : queue' = Append(queue, it)
    /\ produced' = produced + 1
    /\ UNCHANGED <<pc, path, outcome, events, textVars, pollVars, tallyVars, sideVars,
                   argVars, flagVars, client_gone, drainVars, mergeVars, callVars,
                   toolVars, session>>

Produce == Put(CtlItems)

ProduceLive == Put(LiveItems)

----------------------------------------------------------------------------
(* One iteration of the while loop of use_stream_response, one action per   *)
(* way through it.  Leaving the try block enters the finally block, which   *)
(* awaits clear_stream_queue (pc = "drain"); the generator has finished     *)
(* when pc = "finished".  outcome names the exit taken: the three errors    *)
(* are raised to the caller, with every other value the generator returns.  *)

Raised == {"QuotaExceededError", "ClientDisconnectedError", "Error"}

\* an exit that skips the finally block: with it C10 fails
Leave_NoFinally(how) == pc' = "finished" /\ outcome' = how

\* try ... finally (lines 109, 608-624): whatever leaves the loop runs the
\* finally block before the generator finishes
Leave(how) == pc' = "drain" /\ outcome' = how

\* the flags are read at lines 143 and 148 and found clear, then the queue
\* is polled
AtPoll == pc = "loop" /\ quota_exceeded' = FALSE /\ shutting_down' = FALSE

\* lines 159-163, run for every item but the sentinel
Received ==
    /\ empty_count' = 0
    /\ received_items_count' = received_items_count + 1
    /\ silent_for' = 0
    /\ UNCHANGED total_empty

\* the exemption without the test received_items_count == 1: with it
\* every empty done is ignored, and C9 fails
IgnoresDone_Always(hc, n, sdi) == ~hc /\ ~sdi

\* line 281: the done item is taken for residue of an earlier request
IgnoresDone(hc, n, sdi) == ~hc /\ n = 1 /\ ~sdi

\* a handover that waits for the DOM only when an answer was received: with
\* it C13 fails
RecoveryDue_WithBody(rlen, blen) == rlen > 0 /\ blen > 0 /\ page

\* lines 261 and 264: reasoning was emitted, no answer, and there is a page
\* to read the answer from
RecoveryDue(rlen, blen) == rlen > 0 /\ blen = 0 /\ page

\* lines 142-145
QuotaAbort ==
    /\ pc = "loop"
    /\ quota_exceeded' = TRUE
    /\ shutting_down' \in BOOLEAN
    /\ path' = "quota"
    /\ Leave("QuotaExceededError")
    /\ UNCHANGED <<queue, produced, events, textVars, pollVars, tallyVars, sideVars,
                   argVars, client_gone, drainVars, mergeVars, callVars,
                   toolVars, session>>

\* a shutdown check made before the quota check: with it C23 fails
ShutdownExit_First ==
    /\ pc = "loop"
    /\ quota_exceeded' \in BOOLEAN
    /\ shutting_down' = TRUE
    /\ path' = "shutdown"
    /\ events' = Append(events, CauseEvent("global_shutdown"))
    /\ Leave("global_shutdown")
    /\ UNCHANGED <<queue, produced, textVars, pollVars, tallyVars, sideVars, argVars,
                   client_gone, drainVars, mergeVars, callVars,
                   toolVars, session>>

\* lines 147-151
ShutdownExit ==
    /\ pc = "loop"
    /\ quota_exceeded' = FALSE
    /\ shutting_down' = TRUE
    /\ path' = "shutdown"
    /\ events' = Append(events, CauseEvent("global_shutdown"))
    /\ Leave("global_shutdown")
    /\ UNCHANGED <<queue, produced, textVars, pollVars, tallyVars, sideVars, argVars,
                   client_gone, drainVars, mergeVars, callVars,
                   toolVars, session>>

\* a sentinel that is announced to the caller by a terminal event: with it
\* C19 fails
TakeSentinel_Announced ==
    /\ AtPoll
    /\ queue # <<>>
    /\ Head(queue).form = "none"
    /\ queue' = Tail(queue)
    /\ path' = "sentinel"
    /\ events' = Append(events, CauseEvent("sentinel"))
    /\ Leave("sentinel")
    /\ UNCHANGED <<produced, textVars, pollVars, tallyVars, sideVars, argVars,
                   client_gone, drainVars, mergeVars, callVars,
                   toolVars, session>>

\* lines 154-158: data is None
TakeSentinel ==
    /\ AtPoll
    /\ queue # <<>>
    /\ Head(queue).form = "none"
    /\ queue' = Tail(queue)
    /\ path' = "sentinel"
    /\ Leave("sentinel")
    /\ UNCHANGED <<produced, events, textVars, pollVars, tallyVars, sideVars, argVars,
                   client_gone, drainVars, mergeVars, callVars,
                   toolVars, session>>

\* a stale item discarded before the counters of lines 159-163: with it
\* the first-byte timeout can follow a read item, and C39 fails
TakeStale_Uncounted ==
    /\ AtPoll
    /\ queue # <<>>
    /\ IsStale(Head(queue))
    /\ queue' = Tail(queue)
    /\ path' = "stale"
    /\ UNCHANGED <<produced, pc, outcome, events, textVars, pollVars, tallyVars,
                   sideVars, argVars, client_gone, drainVars, mergeVars, callVars,
                   toolVars, session>>

\* lines 159-179: a wrapped item older than the session
TakeStale ==
    /\ AtPoll
    /\ queue # <<>>
    /\ IsStale(Head(queue))
    /\ queue' = Tail(queue)
    /\ Received
    /\ path' = "stale"
    /\ UNCHANGED <<produced, pc, outcome, events, textVars, tallyVars, sideVars,
                   argVars, client_gone, drainVars, mergeVars, callVars,
                   toolVars, session>>

\* a str that is no JSON answered with an event of the texts as they
\* stand: with it C35 fails
TakeDropped_Echoes ==
    /\ AtPoll
    /\ queue # <<>>
    /\ IsDropped(Head(queue))
    /\ queue' = Tail(queue)
    /\ Received
    /\ path' = "dropped"
    /\ events' = Append(events, Event("fragment", acc_reason_state, acc_body_state,
                                      FALSE))
    /\ UNCHANGED <<produced, pc, outcome, textVars, tallyVars, sideVars,
                   argVars, client_gone, drainVars, mergeVars, callVars,
                   toolVars, session>>

\* lines 159-188, 289-297: a str that is no JSON
TakeDropped ==
    /\ AtPoll
    /\ queue # <<>>
    /\ IsDropped(Head(queue))
    /\ queue' = Tail(queue)
    /\ Received
    /\ path' = "dropped"
    /\ UNCHANGED <<produced, pc, outcome, events, textVars, tallyVars, sideVars,
                   argVars, client_gone, drainVars, mergeVars, callVars,
                   toolVars, session>>

\* lines 159-202 raise, 608-613 re-raise
TakeRaising ==
    /\ AtPoll
    /\ queue # <<>>
    /\ IsRaising(Head(queue))
    /\ queue' = Tail(queue)
    /\ Received
    /\ path' = "raised"
    /\ Leave("Error")
    /\ UNCHANGED <<produced, events, textVars, tallyVars, sideVars, argVars,
                   client_gone, drainVars, mergeVars, callVars,
                   toolVars, session>>

\* lines 159-287: a structured fragment
TakeFragment ==
    /\ AtPoll
    /\ queue # <<>>
    /\ IsFragment(Head(queue))
    /\ LET it == Head(queue)
           acc == MergeText(acc_reason_state, it.reason)
           new_reason_delta == NewReasonDelta(acc_reason_state, it.reason)
           accBody == MergeText(acc_body_state, it.body)
           reason == EventReason(acc, new_reason_delta)
           body == EventBody(acc, accBody, new_reason_delta)
           hc == has_content \/ body # <<>> \/ reason # <<>>
           rlen == accumulated_reason_len + Len(reason)
           blen == accumulated_body_len + Len(body)
       IN
       /\ queue' = Tail(queue)
       /\ Received
       /\ acc_reason_state' = acc
       /\ acc_body_state' = accBody
       /\ split_index' = NextSplitIndex(acc, new_reason_delta)
       /\ force_body_mode' = NextMode(new_reason_delta)
       /\ boundary_buffer' = NextBuffer(new_reason_delta)
       /\ boundary_transitions' =
              IF Fires(new_reason_delta) THEN boundary_transitions + 1
              ELSE boundary_transitions
       /\ logical' = logical \o it.reason
       /\ accumulated_reason_len' = rlen
       /\ accumulated_body_len' = blen
       /\ has_content' = hc
       /\ events' = Append(events, Event("fragment", reason, body, it.done))
       /\ IF ~it.done
          THEN \* lines 286-287, 297
               /\ stale_done_ignored' = FALSE
               /\ path' = "fragment"
               /\ UNCHANGED <<pc, outcome, wait_i>>
          ELSE IF RecoveryDue(rlen, blen)
          THEN \* lines 261-268: the DOM wait starts
               /\ stale_done_ignored' = FALSE
               /\ path' = "done"
               /\ pc' = "recovery"
               /\ wait_i' = 0
               /\ UNCHANGED outcome
          ELSE IF IgnoresDone(hc, received_items_count + 1, FALSE)
          THEN \* lines 281-284
               /\ stale_done_ignored' = TRUE
               /\ path' = "ignored_done"
               /\ UNCHANGED <<pc, outcome, wait_i>>
          ELSE \* line 285
               /\ stale_done_ignored' = FALSE
               /\ path' = "done"
               /\ Leave("done")
               /\ UNCHANGED wait_i
    /\ UNCHANGED <<produced, reload_count, argVars, client_gone, drainVars, mergeVars, callVars,
                   toolVars, session>>

----------------------------------------------------------------------------
(* The thinking-only recovery of lines 261-279: one action per poll of      *)
(* PageController.get_body_text_only_from_dom.                              *)

\* lines 281-285, reached when the recovery is over
AfterRecovery ==
    IF IgnoresDone(has_content, received_items_count, stale_done_ignored)
    THEN /\ stale_done_ignored' = TRUE
         /\ pc' = "loop"
         /\ UNCHANGED outcome
    ELSE /\ Leave("done")
         /\ UNCHANGED stale_done_ignored

\* lines 269-275: the probe returns text that is not blank
RecoveryFound ==
    /\ pc = "recovery"
    /\ \E dom_text \in {t \in DomTexts : NonBlank(t)} :
          events' = Append(events, Event("recovered", <<>>, dom_text, FALSE))
    /\ wait_i' = wait_i + 1
    /\ path' = "recovery_found"
    /\ AfterRecovery
    /\ UNCHANGED <<queue, produced, textVars, pollVars, has_content,
                   accumulated_reason_len, accumulated_body_len, reload_count,
                   argVars, flagVars, client_gone, drainVars, mergeVars, callVars,
                   toolVars, session>>

\* a wait that allows one poll more than wait_attempts: with it C14 fails
RecoveryMiss_OneMore ==
    /\ pc = "recovery"
    /\ \E dom_text \in {t \in DomTexts : ~NonBlank(t)} : TRUE
    /\ wait_i' = wait_i + 1
    /\ path' = "recovery_miss"
    /\ IF wait_i + 1 < wait_attempts + 1
       THEN UNCHANGED <<pc, outcome, stale_done_ignored>>
       ELSE AfterRecovery
    /\ UNCHANGED <<queue, produced, events, textVars, pollVars, has_content,
                   accumulated_reason_len, accumulated_body_len, reload_count,
                   argVars, flagVars, client_gone, drainVars, mergeVars, callVars,
                   toolVars, session>>

\* lines 268-277: the probe returns nothing, or blanks
RecoveryMiss ==
    /\ pc = "recovery"
    /\ \E dom_text \in {t \in DomTexts : ~NonBlank(t)} : TRUE
    /\ wait_i' = wait_i + 1
    /\ path' = "recovery_miss"
    /\ IF wait_i + 1 < wait_attempts
       THEN UNCHANGED <<pc, outcome, stale_done_ignored>>
       ELSE AfterRecovery
    /\ UNCHANGED <<queue, produced, events, textVars, pollVars, has_content,
                   accumulated_reason_len, accumulated_body_len, reload_count,
                   argVars, flagVars, client_gone, drainVars, mergeVars, callVars,
                   toolVars, session>>

\* a probe whose error reaches the caller: with it C24 fails
RecoveryError_Raises ==
    /\ pc = "recovery"
    /\ wait_i' = wait_i + 1
    /\ path' = "recovery_error"
    /\ Leave("Error")
    /\ UNCHANGED <<queue, produced, events, textVars, pollVars, has_content,
                   stale_done_ignored, accumulated_reason_len, accumulated_body_len,
                   reload_count, argVars, flagVars, client_gone, drainVars, mergeVars, callVars,
                   toolVars, session>>

\* lines 278-279: the probe raises, the error is logged
RecoveryError ==
    /\ pc = "recovery"
    /\ wait_i' = wait_i + 1
    /\ path' = "recovery_error"
    /\ AfterRecovery
    /\ UNCHANGED <<queue, produced, events, textVars, pollVars, has_content,
                   accumulated_reason_len, accumulated_body_len, reload_count,
                   argVars, flagVars, client_gone, drainVars, mergeVars, callVars,
                   toolVars, session>>

----------------------------------------------------------------------------
(* The except branch of lines 542-607: the poll found the queue empty.      *)
(* The checks are made in the order of the code, each action carrying the   *)
(* negation of the checks before it.                                        *)

\* lines 542-543
EmptyPoll ==
    /\ AtPoll
    /\ queue = <<>>
    /\ empty_count' = empty_count + 1
    /\ total_empty' = Min(total_empty + 1, max_empty_retries + 1)
    /\ UNCHANGED received_items_count

\* a silence check that is armed from the first poll: with it C15 fails
SilenceDue_Unarmed == silent_for > silence_detection_threshold

\* line 546
SilenceDue ==
    /\ received_items_count >= min_items_before_silence_check
    /\ silent_for > silence_detection_threshold

\* a first-byte check that does not ask whether items were received: with
\* it C16 fails
TtfbDue_AnyCount == empty_count + 1 >= initial_wait_limit

\* line 561, with empty_count already incremented
TtfbDue == received_items_count = 0 /\ empty_count + 1 >= initial_wait_limit

\* a ceiling check that trips two polls late: with it C18 fails
CeilingDue_Late == empty_count + 1 >= max_empty_retries + 2

\* line 577, with empty_count already incremented
CeilingDue == empty_count + 1 >= max_empty_retries

\* lines 545-550; the client is not looked at
SilenceExit ==
    /\ EmptyPoll
    /\ SilenceDue
    /\ client_gone' \in BOOLEAN
    /\ path' = "silence"
    /\ events' = Append(events, CauseEvent("silence_detected"))
    /\ Leave("silence_detected")
    /\ UNCHANGED <<queue, produced, textVars, silent_for, tallyVars, sideVars, argVars,
                   drainVars, mergeVars, callVars,
                   toolVars, session>>

\* a disconnect check whose error is caught and dropped, the poll going on
\* to its sleep: with it C21 fails
DisconnectAbort_Swallowed ==
    /\ EmptyPoll
    /\ ~SilenceDue
    /\ client_gone' = TRUE
    /\ path' = "disconnect"
    /\ UNCHANGED <<pc, outcome>>
    /\ UNCHANGED <<queue, produced, events, textVars, silent_for, tallyVars, sideVars,
                   argVars, drainVars, mergeVars, callVars,
                   toolVars, session>>

\* lines 552-558, 608-611
DisconnectAbort ==
    /\ EmptyPoll
    /\ ~SilenceDue
    /\ client_gone' = TRUE
    /\ path' = "disconnect"
    /\ Leave("ClientDisconnectedError")
    /\ UNCHANGED <<queue, produced, events, textVars, silent_for, tallyVars, sideVars,
                   argVars, drainVars, mergeVars, callVars,
                   toolVars, session>>

\* lines 560-574; page_instance may be None, a failure of reload() is caught
TtfbExit ==
    /\ EmptyPoll
    /\ ~SilenceDue
    /\ client_gone' = FALSE
    /\ TtfbDue
    /\ \E page_instance \in BOOLEAN, reload_ok \in BOOLEAN :
          /\ reload_count' = IF page_instance THEN reload_count + 1 ELSE reload_count
          /\ path' = IF page_instance /\ ~reload_ok THEN "ttfb_reload_failed" ELSE "ttfb"
    /\ events' = Append(events, CauseEvent("ttfb_timeout"))
    /\ Leave("ttfb_timeout")
    /\ UNCHANGED <<queue, produced, textVars, silent_for, tallyVars, wait_i, argVars,
                   drainVars, mergeVars, callVars,
                   toolVars, session>>

\* lines 83-107: the liveness probe answers False without a page, it
\* catches its own errors
UiResults == IF page THEN BOOLEAN ELSE {FALSE}

\* a ceiling that gives way to the probe (the UI-based timeout extension):
\* with it C17 fails
CeilingExit_TrustsUi ==
    /\ EmptyPoll
    /\ ~SilenceDue
    /\ client_gone' = FALSE
    /\ ~TtfbDue
    /\ CeilingDue
    /\ \E is_thinking \in UiResults :
          IF is_thinking
          THEN /\ path' = "sleep"
               /\ UNCHANGED <<pc, outcome, events>>
          ELSE /\ path' = "ceiling"
               /\ events' = Append(events, CauseEvent("internal_timeout"))
               /\ Leave("internal_timeout")
    /\ UNCHANGED <<queue, produced, textVars, silent_for, tallyVars, sideVars, argVars,
                   drainVars, mergeVars, callVars,
                   toolVars, session>>

\* lines 576-589; the result of check_ui_generation_active chooses the line
\* that is logged (path), nothing else
CeilingExit ==
    /\ EmptyPoll
    /\ ~SilenceDue
    /\ client_gone' = FALSE
    /\ ~TtfbDue
    /\ CeilingDue
    /\ \E is_thinking \in UiResults :
          path' = IF is_thinking THEN "ceiling_ui_active" ELSE "ceiling"
    /\ events' = Append(events, CauseEvent("internal_timeout"))
    /\ Leave("internal_timeout")
    /\ UNCHANGED <<queue, produced, textVars, silent_for, tallyVars, sideVars, argVars,
                   drainVars, mergeVars, callVars,
                   toolVars, session>>

\* a sleep reached without the disconnect check: with it C22 fails
Sleep_Unchecked ==
    /\ EmptyPoll
    /\ ~SilenceDue
    /\ client_gone' \in BOOLEAN
    /\ ~TtfbDue
    /\ ~CeilingDue
    /\ \E dt \in {1, 2} :
          silent_for' = Min(silent_for + dt, silence_detection_threshold + 1)
    /\ path' = "sleep"
    /\ UNCHANGED <<queue, produced, pc, outcome, events, textVars, tallyVars, sideVars,
                   argVars, drainVars, mergeVars, callVars,
                   toolVars, session>>

\* a sleep after a poll that is not counted: with it the ceiling is never
\* reached, and C36 fails
Sleep_Uncounted ==
    /\ AtPoll
    /\ queue = <<>>
    /\ ~SilenceDue
    /\ client_gone' = FALSE
    /\ ~TtfbDue
    /\ ~CeilingDue
    /\ \E dt \in {1, 2} :
          silent_for' = Min(silent_for + dt, silence_detection_threshold + 1)
    /\ path' = "sleep"
    /\ UNCHANGED <<queue, produced, pc, outcome, events, textVars, empty_count,
                   received_items_count, total_empty, tallyVars, sideVars, argVars,
                   drainVars, mergeVars, callVars, toolVars, session>>

\* lines 591-607: nothing is due, sleep 0.1 s; the wall clock advances by
\* the sleep or more.  The periodic call of check_ui_generation_active
\* (lines 597-604) writes a log line and a local that is never read.
Sleep ==
    /\ EmptyPoll
    /\ ~SilenceDue
    /\ client_gone' = FALSE
    /\ ~TtfbDue
    /\ ~CeilingDue
    /\ \E dt \in {1, 2} :
          silent_for' = Min(silent_for + dt, silence_detection_threshold + 1)
    /\ path' = "sleep"
    /\ UNCHANGED <<queue, produced, pc, outcome, events, textVars, tallyVars, sideVars,
                   argVars, drainVars, mergeVars, callVars,
                   toolVars, session>>

----------------------------------------------------------------------------
(* clear_stream_queue (lines 627-652), awaited in the finally block: one    *)
(* action per get_nowait.  The producer may put items while it runs.        *)

DrainTake ==
    /\ pc = "drain"
    /\ queue # <<>>
    /\ queue' = Tail(queue)
    /\ drained_items' = drained_items + 1
    /\ UNCHANGED <<produced, pc, path, outcome, events, textVars, pollVars, tallyVars,
                   sideVars, argVars, flagVars, client_gone, drain_runs, mergeVars, callVars,
                   toolVars, session>>

\* a drain that lets queue.Empty through to its caller: with it C11 fails
DrainEmpty_Raises ==
    /\ pc = "drain"
    /\ queue = <<>>
    /\ drain_runs' = drain_runs + 1
    /\ pc' = "finished"
    /\ outcome' = "Error"
    /\ UNCHANGED <<queue, produced, path, events, textVars, pollVars,
                   tallyVars, sideVars, argVars, flagVars, client_gone, drained_items,
                   mergeVars, callVars,
                   toolVars, session>>

\* queue.Empty is caught, the loop breaks, the call returns (and with it
\* the generator, when the call is the one of the finally block)
DrainEmpty ==
    /\ pc = "drain"
    /\ queue = <<>>
    /\ drain_runs' = drain_runs + 1
    /\ pc' = "finished"
    /\ UNCHANGED <<queue, produced, path, outcome, events, textVars, pollVars,
                   tallyVars, sideVars, argVars, flagVars, client_gone, drained_items,
                   mergeVars, callVars,
                   toolVars, session>>

\* line 627: clear_stream_queue is called once more after it returned
DrainAgain ==
    /\ pc = "finished"
    /\ drain_runs < MaxCalls
    /\ pc' = "drain"
    /\ UNCHANGED <<queue, produced, path, outcome, events, textVars, pollVars,
                   tallyVars, sideVars, argVars, flagVars, client_gone, drainVars,
                   mergeVars, callVars,
                   toolVars, session>>

----------------------------------------------------------------------------
(* The merge study: one logical text, cut in pieces, is fed to the         *)
(* reconciler twice, piece by piece and as growing snapshots.              *)

Feed ==
    /\ pc = "study"
    /\ m_fed < Len(m_cut)
    /\ m_fed' = m_fed + 1
    /\ m_delta' = MergeText(m_delta, m_cut[m_fed + 1])
    /\ m_cumul' = MergeText(m_cumul, Joined(m_cut, m_fed + 1))
    /\ UNCHANGED <<queue, produced, pc, path, outcome, events, textVars, pollVars,
                   tallyVars, sideVars, argVars, flagVars, client_gone, drainVars,
                   m_cut, callVars, toolVars, session>>

----------------------------------------------------------------------------

Next ==
    \/ Produce
    \/ QuotaAbort
    \/ ShutdownExit
    \/ TakeSentinel
    \/ TakeStale
    \/ TakeDropped
    \/ TakeRaising
    \/ TakeFragment
    \/ RecoveryFound
    \/ RecoveryMiss
    \/ RecoveryError
    \/ SilenceExit
    \/ DisconnectAbort
    \/ TtfbExit
    \/ CeilingExit
    \/ Sleep
    \/ DrainTake
    \/ DrainEmpty

Spec == Init /\ [][Next]_vars

\* the steps of the generator that no signal of the environment causes:
\* every disjunct of Next but the producer's, the two flag exits and the
\* disconnect
Session ==
    \/ TakeSentinel
    \/ TakeStale
    \/ TakeDropped
    \/ TakeRaising
    \/ TakeFragment
    \/ RecoveryFound
    \/ RecoveryMiss
    \/ RecoveryError
    \/ SilenceExit
    \/ TtfbExit
    \/ CeilingExit
    \/ Sleep
    \/ DrainTake
    \/ DrainEmpty

\* the event loop runs the generator again after every await (the sleeps
\* of lines 266 and 606, the probes, the callback): a generator that can
\* take a step takes one.  Nothing is assumed of the flags and the client:
\* no run is rescued by a signal that has to come
NextLive ==
    \/ ProduceLive
    \/ QuotaAbort
    \/ ShutdownExit
    \/ DisconnectAbort
    \/ Session

SpecLive == Init /\ [][NextLive]_vars /\ WF_vars(Session)

\* the text study: no producer, no signal, no page
NextText ==
    \/ TakeFragment
    \/ SilenceExit
    \/ TtfbExit
    \/ CeilingExit
    \/ Sleep
    \/ DrainTake
    \/ DrainEmpty

SpecText == InitText /\ [][NextText]_vars

SpecMerge == InitMerge /\ [][Feed]_vars

\* the drain study: the calls of clear_stream_queue follow one another
NextDrain ==
    \/ DrainTake
    \/ DrainEmpty
    \/ DrainAgain

SpecDrain == InitDrain /\ [][NextDrain]_vars

----------------------------------------------------------------------------
(* ResponseFormatter.format_streaming_chunks of                             *)
(* api_utils/utils_ext/function_calling.py.  The arguments of a call are a *)
(* dict, kept as the sequence of its <<key, value>> pairs in insertion     *)
(* order; keys and texts are sequences of characters; the serialisation    *)
(* is the sequence of the characters json.dumps writes.                    *)

\* the absent value of an optional argument
None == "<None>"

\* JSON values
JStr(s) == [t |-> "str", s |-> s]
JInt(n) == [t |-> "int", n |-> n]
JBool(b) == [t |-> "bool", b |-> b]
JNull == [t |-> "null"]
JDict(items) == [t |-> "dict", items |-> items]

\* json.dumps escapes the quote, the backslash and the control characters
\* of a string; with ensure_ascii=False every other character is written
\* as it is
EscapeChar(c) ==
    CASE c = "\"" -> <<"\\", "\"">>
      [] c = "\\" -> <<"\\", "\\">>
      [] c = "\n" -> <<"\\", "n">>
      [] OTHER -> <<c>>

RECURSIVE EscapeText(_)
EscapeText(s) ==
    IF s = <<>> THEN <<>> ELSE EscapeChar(Head(s)) \o EscapeText(Tail(s))

\* the decimal digits of a natural number
RECURSIVE Decimal(_)
Decimal(n) ==
    LET digit == <<"0", "1", "2", "3", "4", "5", "6", "7", "8", "9">>[(n % 10) + 1]
    IN IF n < 10 THEN <<digit>> ELSE Decimal(n \div 10) \o <<digit>>

RECURSIVE DumpsValue(_)
RECURSIVE DumpsItems(_, _)

\* json.dumps of a dict: "{", the items separated by ", ", "}"
DumpsDict(items) == <<"{">> \o DumpsItems(items, Len(items)) \o <<"}">>

\* json.dumps of one value
DumpsValue(v) ==
    CASE v.t = "str" -> <<"\"">> \o EscapeText(v.s) \o <<"\"">>
      [] v.t = "int" -> IF v.n < 0 THEN <<"-">> \o Decimal(-v.n) ELSE Decimal(v.n)
      [] v.t = "bool" -> IF v.b THEN <<"t", "r", "u", "e">>
                         ELSE <<"f", "a", "l", "s", "e">>
      [] v.t = "null" -> <<"n", "u", "l", "l">>
      [] v.t = "dict" -> DumpsDict(v.items)

\* the first k items of a dict, each written as "key": value
DumpsItems(items, k) ==
    IF k = 0 THEN <<>>
    ELSE DumpsItems(items, k - 1)
         \o (IF k > 1 THEN <<",", " ">> ELSE <<>>)
         \o <<"\"">> \o EscapeText(items[k][1]) \o <<"\"", ":", " ">>
         \o DumpsValue(items[k][2])

\* line 615: json.dumps(parsed_call.arguments, ensure_ascii=False)
json_dumps(arguments) == DumpsDict(arguments)

\* lines 494-541
format_tool_call_delta(index, call_id, function_name, arguments_fragment) ==
    LET function_delta ==
            (IF function_name # None THEN "name" :> function_name ELSE <<>>)
            @@ (IF arguments_fragment # <<>>
                THEN "arguments" :> arguments_fragment ELSE <<>>)
    IN ("index" :> index)
       @@ (IF call_id # None THEN ("id" :> call_id) @@ ("type" :> "function")
           ELSE <<>>)
       @@ (IF DOMAIN function_delta # {} THEN "function" :> function_delta
           ELSE <<>>)

\* a slice one character too long: with it C27 fails
Fragment_Overlong(arguments_str, i, size) ==
    SubSeq(arguments_str, i + 1, Min(i + size + 1, Len(arguments_str)))

\* line 617: arguments_str[i : i + chunk_size]
Fragment(arguments_str, i, size) ==
    SubSeq(arguments_str, i + 1, Min(i + size, Len(arguments_str)))

\* lines 616-624: the chunks appended from offset i on
RECURSIVE ArgumentChunks(_, _, _, _)
ArgumentChunks(index, arguments_str, i, size) ==
    IF i >= Len(arguments_str) THEN <<>>
    ELSE <<format_tool_call_delta(index, None, None,
                                  Fragment(arguments_str, i, size))>>
         \o ArgumentChunks(index, arguments_str, i + size, size)

\* lines 297-304: uuid4 gives any identifier
CallIds == {"call_1", "call_2"}

\* the inputs of the chunk study
Indexes == {0, 1}
Names == {"get_weather", ""}
ChunkSizes == (1..MaxChunkSize) \cup {DefaultChunkSize}
ArgDicts ==
    { <<>>,
      << <<(<<"a">>), JStr(<<"S", "F">>)>> >>,
      << <<(<<"a">>), JStr(<<"\"">>)>>, <<(<<"b">>), JInt(10)>> >>,
      << <<(<<"a">>), JNull>>, <<(<<"b">>), JBool(TRUE)>> >>,
      << <<(<<"a">>), JDict(<< <<(<<"b">>), JInt(-1)>> >>)>> >>,
      << <<(<<"é", "\\">>), JStr(<<"\n", "é">>)>> >>,
      << <<(<<>>), JStr(<<>>)>>, <<(<<"b">>), JBool(FALSE)>> >> }

\* the chunk study: one call of format_streaming_chunks on a new formatter
InitFormat ==
    /\ InitLocals
    /\ session = 1
    /\ NoStudy
    /\ pc = "format"
    /\ queue = <<>>
    /\ produced = 0
    /\ page = FALSE
    /\ initial_wait_limit = 2
    /\ f_index \in Indexes
    /\ parsed_call \in [name : Names, arguments : ArgDicts]
    /\ chunk_size \in ChunkSizes
    /\ NoChunks
    /\ openai_tools = <<>>
    /\ NoDeclarations

\* lines 575-626
FormatStreamingChunks ==
    /\ pc = "format"
    /\ \E call_id \in CallIds :
          /\ pending_calls' =
                (call_id :> [call_id |-> call_id,
                             function_name |-> parsed_call.name,
                             arguments |-> parsed_call.arguments])
                @@ pending_calls
          /\ chunks' =
                <<format_tool_call_delta(f_index, call_id, parsed_call.name, <<>>)>>
                \o ArgumentChunks(f_index, json_dumps(parsed_call.arguments), 0,
                                  chunk_size)
    /\ pc' = "formatted"
    /\ UNCHANGED <<queue, produced, path, outcome, events, textVars, pollVars,
                   tallyVars, sideVars, argVars, flagVars, client_gone, drainVars,
                   mergeVars, f_index, parsed_call, chunk_size, toolVars, session>>

SpecFormat == InitFormat /\ [][FormatStreamingChunks]_vars

----------------------------------------------------------------------------
(* SchemaConverter.convert_tools and convert_tool of                        *)
(* api_utils/utils_ext/function_calling.py.  A Python value is a record    *)
(* tagged with its type; a dict is a function from its keys.                *)

PyNone == [py |-> "none"]
PyStr(s) == [py |-> "str", s |-> s]
PyBool(b) == [py |-> "bool", b |-> b]
PyDict(items) == [py |-> "dict", items |-> items]
PyList(list) == [py |-> "list", list |-> list]

\* d.get(key)
Get(d, key) == IF key \in DOMAIN d.items THEN d.items[key] ELSE PyNone

\* isinstance(v, dict), isinstance(v, str)
IsDict(v) == v.py = "dict"
IsStr(v) == v.py = "str"

\* bool(v)
Truthy(v) ==
    CASE v.py = "none" -> FALSE
      [] v.py = "str" -> v.s # ""
      [] v.py = "bool" -> v.b
      [] v.py = "dict" -> DOMAIN v.items # {}
      [] v.py = "list" -> v.list # <<>>

\* line 133
STRIP_FIELDS == {"strict"}

\* lines 228-254
RECURSIVE clean_parameters(_)
clean_parameters(parameters) ==
    PyDict([key \in DOMAIN parameters.items \ STRIP_FIELDS |->
              LET value == parameters.items[key] IN
              IF IsDict(value) THEN clean_parameters(value)
              ELSE IF value.py = "list"
              THEN PyList([i \in 1..Len(value.list) |->
                             IF IsDict(value.list[i])
                             THEN clean_parameters(value.list[i])
                             ELSE value.list[i]])
              ELSE value])

\* what a call gives: a value returned or SchemaConversionError raised
Returns(v) == [raised |-> FALSE, value |-> v]
Raises == [raised |-> TRUE, value |-> PyNone]

\* lines 135-185
convert_tool(openai_tool) ==
    IF ~IsDict(openai_tool) THEN Raises
    ELSE IF Get(openai_tool, "type") # PyStr("function") THEN Raises
    ELSE LET function_def == Get(openai_tool, "function") IN
         IF ~IsDict(function_def) THEN Raises
         ELSE LET name == Get(function_def, "name")
                  description == Get(function_def, "description")
                  parameters == Get(function_def, "parameters")
              IN IF ~Truthy(name) \/ ~IsStr(name) THEN Raises
                 ELSE Returns(PyDict(
                        ("name" :> name)
                        @@ (IF Truthy(description) /\ IsStr(description)
                            THEN "description" :> description ELSE <<>>)
                        @@ (IF Truthy(parameters) /\ IsDict(parameters)
                            THEN "parameters" :> clean_parameters(parameters)
                            ELSE <<>>)))

\* the tools of the converter study: the two tools of the repository's
\* test (a function tool, a web_search tool), a function tool with a
\* description and strict fields, a function tool in the flat format, a
\* function tool without a name, a tool that is not a dict
valid_func ==
    PyDict("type" :> PyStr("function")
           @@ "function" :> PyDict(
                "name" :> PyStr("valid_func")
                @@ "parameters" :> PyDict("type" :> PyStr("object")
                                          @@ "properties" :> PyDict(<<>>))))

web_search ==
    PyDict("type" :> PyStr("web_search")
           @@ "filters" :> PyDict(
                "allowed_domains" :> PyList(<<PyStr("google.com")>>)))

strict_func ==
    PyDict("type" :> PyStr("function")
           @@ "function" :> PyDict(
                "name" :> PyStr("g")
                @@ "description" :> PyStr("d")
                @@ "strict" :> PyBool(TRUE)
                @@ "parameters" :> PyDict(
                     "type" :> PyStr("object")
                     @@ "strict" :> PyBool(TRUE)
                     @@ "anyOf" :> PyList(<<PyDict("strict" :> PyBool(TRUE)
                                                   @@ "type" :> PyStr("string")),
                                            PyStr("x")>>))))

flat_func ==
    PyDict("type" :> PyStr("function") @@ "name" :> PyStr("f"))

nameless_func ==
    PyDict("type" :> PyStr("function")
           @@ "function" :> PyDict("name" :> PyStr("")))

ToolSamples ==
    { valid_func, web_search, strict_func, flat_func, nameless_func,
      PyStr("function") }

\* the converter study: one call of convert_tools
InitConvert ==
    /\ InitLocals
    /\ session = 1
    /\ NoStudy
    /\ pc = "convert"
    /\ queue = <<>>
    /\ produced = 0
    /\ page = FALSE
    /\ initial_wait_limit = 2
    /\ f_index = 0
    /\ parsed_call = [name |-> "", arguments |-> <<>>]
    /\ chunk_size = 1
    /\ NoChunks
    /\ openai_tools \in SeqsOf(ToolSamples, 0, MaxTools)
    /\ NoDeclarations

\* lines 187-212: the first tool that convert_tool rejects ends the call
ConvertTools ==
    /\ pc = "convert"
    /\ LET converted == [i \in 1..Len(openai_tools) |-> convert_tool(openai_tools[i])]
       IN IF \E i \in 1..Len(openai_tools) : converted[i].raised
          THEN /\ convert_result' = "SchemaConversionError"
               /\ UNCHANGED declarations
          ELSE /\ convert_result' = "returned"
               /\ declarations' = [i \in 1..Len(openai_tools) |-> converted[i].value]
    /\ pc' = "converted"
    /\ UNCHANGED <<queue, produced, path, outcome, events, textVars, pollVars,
                   tallyVars, sideVars, argVars, flagVars, client_gone, drainVars,
                   mergeVars, callVars, openai_tools, session>>

SpecConvert == InitConvert /\ [][ConvertTools]_vars

----------------------------------------------------------------------------
(* Two calls of use_stream_response, one after the other, on the one        *)
(* STREAM_QUEUE.  The study starts where the first call leaves its loop,    *)
(* with what it left in the queue; the producer goes on putting.            *)

\* line 43: the buffer of the fallback, in the time unit of the model
FallbackBuffer == 10

\* what the producer puts before the second call starts: wrapped items
\* carry the time of their put (at most 1), the others carry none
OldItems ==
    { Item("wrapped", 1, <<>>, <<"x">>, FALSE),
      Item("legacy", 0, <<>>, <<"x">>, FALSE),
      Item("dict", 0, <<"x">>, <<>>, FALSE) }

\* what it puts once the second call runs (time 2)
NewItems ==
    { Sentinel,
      Item("wrapped", 2, <<"a">>, <<>>, FALSE),
      Item("wrapped", 2, <<>>, <<>>, TRUE),
      Item("text", 0, <<>>, <<>>, FALSE),
      Item("badtype", 0, <<>>, <<>>, FALSE) }

InitTwo ==
    /\ InitLocals
    /\ session = 1
    /\ NoStudy
    /\ NoCalls
    /\ pc = "drain"
    /\ queue \in SeqsOf(OldItems, 0, MaxResidue)
    /\ produced = Len(queue)
    /\ page \in BOOLEAN
    /\ initial_wait_limit = 2

\* a put while the first call drains
ProduceOld == session = 1 /\ Put(OldItems)

\* a put after the first call returned and before the second is made
ProduceBetween ==
    /\ session = 1
    /\ pc = "finished"
    /\ produced < MaxItems
    /\ Len(queue) < MaxQueue
    /\ \E it \in OldItems : queue' = Append(queue, it)
    /\ produced' = produced + 1
    /\ UNCHANGED <<pc, path, outcome, events, textVars, pollVars, tallyVars, sideVars,
                   argVars, flagVars, client_gone, drainVars, mergeVars, callVars,
                   toolVars, session>>

\* a put while the second call runs
ProduceNew == session = 2 /\ Put(NewItems)

\* lines 15-80: the second call, at time 2.  Its locals are new; the queue
\* is the module's and is what it is.  The caller passes the time of the
\* call as stream_start_time, or passes nothing and lines 42-43 take ten
\* seconds before the call
StartSecond ==
    /\ session = 1
    /\ pc = "finished"
    /\ session' = 2
    /\ pc' = "loop"
    /\ \E given \in BOOLEAN :
          stream_start_time' = IF given THEN 2 ELSE 2 - FallbackBuffer
    /\ acc_reason_state' = <<>>
    /\ acc_body_state' = <<>>
    /\ boundary_buffer' = <<>>
    /\ force_body_mode' = FALSE
    /\ split_index' = -1
    /\ boundary_transitions' = 0
    /\ logical' = <<>>
    /\ empty_count' = 0
    /\ received_items_count' = 0
    /\ silent_for' = 0
    /\ total_empty' = 0
    /\ has_content' = FALSE
    /\ stale_done_ignored' = FALSE
    /\ accumulated_reason_len' = 0
    /\ accumulated_body_len' = 0
    /\ wait_i' = 0
    /\ reload_count' = 0
    /\ drain_runs' = 0
    /\ drained_items' = 0
    /\ events' = <<>>
    /\ path' = "start"
    /\ outcome' = "running"
    /\ UNCHANGED <<queue, produced, page, initial_wait_limit, flagVars, client_gone,
                   mergeVars, callVars, toolVars>>

NextTwo ==
    \/ ProduceOld
    \/ ProduceBetween
    \/ StartSecond
    \/ ProduceNew
    \/ Session

SpecTwo == InitTwo /\ [][NextTwo]_vars


----------------------------------------------------------------------------
(* Properties.                                                              *)

\* the generator has left the try block
Left == outcome # "running"

\* this step takes the head of the queue inside the poll loop
Takes == pc = "loop" /\ queue # <<>> /\ queue' = Tail(queue)

\* the events yielded so far that carry done = true
DoneEvents == { i \in 1..Len(events) : events[i].done }

\* C1: in every session at most one event with done=true is emitted and
\* no event is emitted after it: an event with done=true is always the
\* last of the events yielded so far.
C1_DoneEventIsLast == \A i \in DoneEvents : i = Len(events)

\* C2: every session that ends by a done fragment, the sentinel None,
\* shutdown, TTFB, silence or the hard ceiling has delivered an event with
\* done=true when the generator finishes.
C2_TerminalEventDelivered ==
    (pc = "finished" /\ outcome \notin Raised) => DoneEvents # {}

\* C2, amended: a session ended by shutdown, TTFB, silence or the hard
\* ceiling ends with the done=true event of that cause as its last event,
\* and a session ended by a done fragment has yielded that fragment with
\* done=true, followed by nothing but the recovered text; the sentinel is
\* not covered.
C2_TerminalEventUnlessSentinel ==
    /\ outcome \in {"global_shutdown", "silence_detected", "ttfb_timeout",
                    "internal_timeout"}
          => /\ events # <<>>
             /\ events[Len(events)].kind = outcome
             /\ events[Len(events)].done
    /\ outcome = "done"
          => \E i \in DoneEvents :
                /\ events[i].kind = "fragment"
                /\ \A j \in (i + 1)..Len(events) : events[j].kind = "recovered"

C2_Witness ==
    pc = "finished" /\ outcome = "internal_timeout" /\ Len(events) >= 2

\* no piece after the first starts with the text of the pieces before it
Unambiguous(cut, n) ==
    \A k \in 2..n : ~StartsWith(cut[k], Joined(cut, k - 1))

\* C3: for every logical text and every way of cutting it into non-empty
\* pieces, the pieces fed as deltas and the growing snapshots end with the
\* same accumulated text, equal to the logical text.
C3_ShapeAgnostic ==
    m_fed = Len(m_cut) =>
        m_delta = m_cumul /\ m_cumul = Joined(m_cut, Len(m_cut))

\* C3, amended: the same, for the cuts in which no piece after the first
\* starts with the whole text of the pieces before it; it holds after
\* every piece, not only after the last.
C3_ShapeAgnosticUnambiguous ==
    Unambiguous(m_cut, m_fed) =>
        m_delta = m_cumul /\ m_cumul = Joined(m_cut, m_fed)

C3_Witness ==
    /\ Len(m_cut) >= 3
    /\ m_fed = Len(m_cut)
    /\ Unambiguous(m_cut, m_fed)
    /\ m_cut[1] = m_cut[3]

\* C4: the lengths of acc_reason_state and acc_body_state never decrease
\* from one step to the next.
C4_StatesNeverShrink ==
    [][/\ Len(acc_reason_state') >= Len(acc_reason_state)
       /\ Len(acc_body_state') >= Len(acc_body_state)]_vars

\* a reason snapshot replaced the accumulated reason, and there is body text
C4_Witness ==
    /\ acc_reason_state # <<>>
    /\ Len(acc_reason_state) < Len(logical)
    /\ Len(acc_body_state) >= 2

\* C5: force_body_mode goes from FALSE to TRUE at most once and never back;
\* once it is TRUE no fragment runs the boundary scan again, so the split
\* index, the window and the count of transitions stay as they are.
C5_SingleTransition ==
    [][/\ force_body_mode =>
              /\ force_body_mode'
              /\ split_index' = split_index
              /\ boundary_buffer' = boundary_buffer
              /\ boundary_transitions' = boundary_transitions
       /\ boundary_transitions' <= 1
       /\ force_body_mode' <=> (boundary_transitions' = 1)]_vars

\* a second marker stands in the reasoning received after the split
C5_Witness ==
    /\ force_body_mode
    /\ \E i \in (split_index + 2)..Len(acc_reason_state) :
          MatchAt(acc_reason_state, i)

\* a fence or tag begins at position k of t, on a line that holds only
\* blanks before it
MarkerBegins(t, k) ==
    /\ TagAt(t, k) \/ FenceTagAt(t, k)
    /\ \E i \in 1..k : (i = 1 \/ t[i - 1] = "LF") /\ AllSpace(t, i, k)

\* C6: when a reason snapshot brings a marker in its new suffix, the mode
\* changes on that fragment, the split is at the offset where the fence or
\* tag begins, and the emitted reason is the text before it.
C6_SnapshotMarkerSplits ==
    [][(/\ Takes
        /\ IsFragment(Head(queue))
        /\ ~force_body_mode
        /\ IsSnapshot(acc_reason_state, Head(queue).reason)
        /\ ~\E k \in 1..Len(acc_reason_state) : MarkerBegins(acc_reason_state, k)
        /\ \E k \in 1..Len(Head(queue).reason) :
              MarkerBegins(Head(queue).reason, k))
       => /\ force_body_mode'
          /\ MarkerBegins(acc_reason_state', split_index' + 1)
          /\ events'[Len(events')].reason = SliceTo(acc_reason_state', split_index')
      ]_vars

\* position i of the text t \o p lies in the last WindowLen characters of t
\* or in p
InWindow(t, i) == i >= Len(t) - WindowLen + 1

\* a marker of t \o p begins in the window of t, at or before the end of t,
\* and p completes it
CompletesMarker(t, p) ==
    \E i \in 1..Len(t) :
        /\ InWindow(t, i)
        /\ MatchAt(t \o p, i)
        /\ ~MatchAt(t, i)

\* C7: a marker split across consecutive delta fragments, beginning within
\* the window, is detected on the fragment that completes it: the mode is
\* ANSWERING after that fragment.  (logical is the text of the deltas
\* received so far, joined.)
C7_SplitMarkerDetected ==
    [][(/\ Takes
        /\ IsFragment(Head(queue))
        /\ ~force_body_mode
        /\ CompletesMarker(logical, Head(queue).reason))
       => force_body_mode']_vars

\* C8: a wrapped fragment whose ts is smaller than the session start time
\* is discarded: no event, the accumulated texts, the mode, the split index
\* and the window unchanged, and the loop goes on polling.
C8_StaleDiscarded ==
    [][(/\ Takes
        /\ Head(queue).form = "wrapped"
        /\ Head(queue).ts < stream_start_time)
       => /\ events' = events
          /\ UNCHANGED <<acc_reason_state, acc_body_state, force_body_mode,
                         split_index, boundary_buffer>>
          /\ pc' = "loop"]_vars

\* a stale item was discarded after reasoning had been accumulated
C8_Witness ==
    path = "stale" /\ pc = "loop" /\ acc_reason_state # <<>> /\ events # <<>>

\* a structured fragment with done=true and neither reason nor body
EmptyDone(it) ==
    /\ it.form \in {"wrapped", "legacy", "dict"}
    /\ ~(it.form = "wrapped" /\ it.ts < stream_start_time)
    /\ it.done
    /\ it.reason = <<>>
    /\ it.body = <<>>

\* C9: an empty done=true fragment that is the first item received does
\* not end the session, which goes on polling; any later one ends it, so
\* the exemption is used at most once.
C9_FirstEmptyDoneIgnoredOnce ==
    [][/\ (Takes /\ EmptyDone(Head(queue))) =>
              IF received_items_count = 0
              THEN pc' = "loop" /\ stale_done_ignored'
              ELSE pc' \in {"recovery", "drain"} /\ ~stale_done_ignored'
       /\ pc = "recovery" => pc' \in {"recovery", "drain"}]_vars

\* the first empty done was ignored, the second ended the session
C9_Witness ==
    /\ outcome = "done"
    /\ received_items_count = 2
    /\ Len(events) = 2
    /\ \A i \in 1..2 : events[i] = Event("fragment", <<>>, <<>>, TRUE)

\* C10: clear_stream_queue has run to its end whenever the generator has
\* finished, whatever the exit, and no exit leaves the try block without
\* entering the finally block.
C10_DrainOnEveryExit ==
    /\ pc = "finished" => drain_runs = 1
    /\ Left <=> pc \in {"drain", "finished"}

\* the client left, and the drain discarded an item put in the meantime
C10_Witness ==
    /\ pc = "finished"
    /\ outcome = "ClientDisconnectedError"
    /\ drained_items >= 1

\* C11: clear_stream_queue called on an empty source removes nothing,
\* leaves the source empty and returns without raising; once one call has
\* returned, a further call changes neither the source nor the number of
\* items removed.
C11_DrainIdempotent ==
    [][/\ (pc = "drain" /\ queue = <<>>) =>
              /\ queue' = <<>>
              /\ drained_items' = drained_items
              /\ pc' = "finished"
              /\ outcome' = outcome
       /\ drain_runs >= 1 =>
              /\ queue' = queue
              /\ queue = <<>>
              /\ drained_items' = drained_items
              /\ outcome' = outcome]_vars

\* an empty source was drained twice in a row
C11_Witness ==
    pc = "finished" /\ drain_runs = 2 /\ drained_items = 0 /\ queue = <<>>

\* C12: when the session ends on a done fragment and the text probe finds
\* the answer, the recovered text is emitted before the done=true event:
\* no done=true event precedes a recovered event, and when the generator
\* has finished a done=true event follows it at once.
C12_RecoveredBeforeTerminal ==
    \A i \in 1..Len(events) :
        events[i].kind = "recovered" =>
            /\ \A j \in 1..(i - 1) : ~events[j].done
            /\ pc = "finished" => (i < Len(events) /\ events[i + 1].done)

\* C13: whenever the generator has finished, by whatever termination, with
\* reasoning emitted and no answer, the recovery text probe was polled at
\* least once.
C13_RecoveryOnEveryEnd ==
    (pc = "finished" /\ accumulated_reason_len > 0 /\ accumulated_body_len = 0)
        => wait_i >= 1

\* C13, amended: the probe is polled at least once when the session ends
\* on a done fragment with reasoning emitted, no answer and a page given;
\* it is polled in no other session.
C13_RecoveryOnDoneFragment ==
    /\ (/\ pc = "finished"
        /\ outcome = "done"
        /\ page
        /\ accumulated_reason_len > 0
        /\ accumulated_body_len = 0) => wait_i >= 1
    /\ wait_i >= 1 =>
          /\ outcome \in {"running", "done"}
          /\ page
          /\ accumulated_reason_len > 0
          /\ accumulated_body_len = 0
          /\ events # <<>>
          /\ \E i \in DoneEvents : events[i].kind = "fragment"

\* the probe was polled to the end of its budget, then the session ended
C13_Witness ==
    pc = "finished" /\ outcome = "done" /\ wait_i = wait_attempts /\ Len(events) = 1

\* C14: the recovery polls the text probe at most wait_attempts times; it
\* stops at the first result that is not blank, which it emits with
\* done=false; when every attempt comes back blank it emits nothing and the
\* session ends on its done fragment as it would have without the recovery.
C14_RecoveryBudget ==
    [][(pc = "recovery" /\ queue' = queue) =>
          /\ wait_i < wait_attempts
          /\ wait_i' = wait_i + 1
          /\ events' # events =>
                /\ \E t \in DomTexts :
                      /\ NonBlank(t)
                      /\ events' = Append(events, Event("recovered", <<>>, t, FALSE))
                /\ pc' = "drain"
                /\ outcome' = "done"
          /\ events' = events =>
                IF pc' = "recovery"
                THEN wait_i' < wait_attempts /\ outcome' = outcome
                ELSE pc' = "drain" /\ outcome' = "done"]_vars

\* the answer was found on the last attempt of the budget
C14_Witness ==
    /\ pc = "finished"
    /\ wait_i = wait_attempts
    /\ events # <<>>
    /\ events[Len(events)].kind = "recovered"

\* this step is a poll of the loop that finds the source empty
EmptyStep == pc = "loop" /\ queue = <<>> /\ empty_count' = empty_count + 1

\* this step emits the terminal event of the given cause and leaves the loop
EndsWith(cause) ==
    /\ events' = Append(events, CauseEvent(cause))
    /\ outcome' = cause
    /\ pc' = "drain"

\* C15: silence_detected is emitted only on an empty poll made when at
\* least min_items_before_silence_check items have been received and more
\* than silence_detection_threshold has passed since the last one; and
\* every empty poll made when both hold ends the session with the
\* done=true event of cause silence_detected.
C15_SilenceWatchdog ==
    [][/\ (outcome' = "silence_detected" /\ outcome # "silence_detected") =>
              /\ EmptyStep
              /\ received_items_count >= min_items_before_silence_check
              /\ silent_for > silence_detection_threshold
       /\ (/\ EmptyStep
           /\ received_items_count >= min_items_before_silence_check
           /\ silent_for > silence_detection_threshold)
              => EndsWith("silence_detected")
       /\ \A i \in 1..Len(events') :
              events'[i].kind = "silence_detected" =>
                  outcome' = "silence_detected" /\ i = Len(events')]_vars

\* silence ended a session that had received just the minimum of items
C15_Witness ==
    /\ pc = "finished"
    /\ outcome = "silence_detected"
    /\ received_items_count = min_items_before_silence_check
    /\ events[Len(events)] = CauseEvent("silence_detected")

\* C16: an empty poll at which no item has been received and the number of
\* empty polls has reached initial_wait_limit ends the session with the
\* done=true event of cause ttfb_timeout and invokes the reload once; the
\* reload is invoked on no other path.
C16_TtfbReloadsOnce ==
    [][/\ (EmptyStep /\ received_items_count = 0
                     /\ empty_count' >= initial_wait_limit)
              => EndsWith("ttfb_timeout") /\ reload_count' = reload_count + 1
       /\ reload_count' # reload_count => outcome' = "ttfb_timeout"]_vars

\* C16, amended: such a poll ends the session with ttfb_timeout unless the
\* client is found gone at that poll; the reload is invoked at most once in
\* a session (not at all when server.page_instance is None), and only by
\* the poll that ends the session with ttfb_timeout; ttfb_timeout is the
\* end of no session that received an item.
C16_TtfbReloadsAtMostOnce ==
    [][/\ (EmptyStep /\ received_items_count = 0
                     /\ empty_count' >= initial_wait_limit
                     /\ ~client_gone')
              => /\ EndsWith("ttfb_timeout")
                 /\ reload_count' \in {reload_count, reload_count + 1}
       /\ (outcome' = "ttfb_timeout" /\ outcome # "ttfb_timeout") =>
              /\ EmptyStep
              /\ received_items_count = 0
              /\ empty_count' >= initial_wait_limit
       /\ reload_count' # reload_count =>
              /\ reload_count = 0
              /\ reload_count' = 1
              /\ outcome = "running"
              /\ outcome' = "ttfb_timeout"]_vars

\* the first-byte timeout ended the session and the page was reloaded
C16_Witness ==
    /\ pc = "finished"
    /\ outcome = "ttfb_timeout"
    /\ reload_count = 1
    /\ events = <<CauseEvent("ttfb_timeout")>>

\* C17: an empty poll at which the counter of empty polls reaches
\* max_empty_retries ends the session with the done=true event of cause
\* internal_timeout, whatever the liveness probe returns.
C17_CeilingAlwaysWins ==
    [][(EmptyStep /\ empty_count' >= max_empty_retries)
          => EndsWith("internal_timeout")]_vars

\* an earlier check of the same poll ends the session: silence, the client
\* gone, or the first-byte timeout
EarlierCheckFires ==
    \/ /\ received_items_count >= min_items_before_silence_check
       /\ silent_for > silence_detection_threshold
    \/ client_gone'
    \/ received_items_count = 0 /\ empty_count' >= initial_wait_limit

\* C17, amended: such a poll ends the session with internal_timeout unless
\* an earlier check of the same poll ends it (silence, client gone, first
\* byte); the step is the same whatever the probe returns: the event, the
\* outcome and every variable of the session but the log line are fixed by
\* the state before the step.
C17_CeilingWinsOverProbe ==
    [][/\ (EmptyStep /\ empty_count' >= max_empty_retries /\ ~EarlierCheckFires)
              => /\ EndsWith("internal_timeout")
                 /\ path' \in {"ceiling", "ceiling_ui_active"}
                 /\ UNCHANGED <<queue, produced, textVars, received_items_count,
                                silent_for, tallyVars, sideVars, argVars, flagVars,
                                drainVars>>
       /\ (outcome' = "internal_timeout" /\ outcome # "internal_timeout") =>
              EmptyStep /\ empty_count' >= max_empty_retries]_vars

\* the probe said that the model was still generating, the session ended
C17_Witness ==
    /\ pc = "finished"
    /\ path = "ceiling_ui_active"
    /\ outcome = "internal_timeout"
    /\ events[Len(events)] = CauseEvent("internal_timeout")

\* C18: in no session does the total number of empty polls exceed
\* max_empty_retries, however the items arrive between them.
C18_TotalEmptyPollsBounded == total_empty <= max_empty_retries

\* C18, amended: the number of empty polls made in a row since the last
\* item was received never exceeds max_empty_retries, and the loop never
\* goes on polling once it has reached it: every item received sets the
\* counter back to zero.
C18_ConsecutiveEmptyPollsBounded ==
    /\ empty_count <= max_empty_retries
    /\ empty_count <= total_empty
    /\ pc \in {"loop", "recovery"} => empty_count < max_empty_retries

\* the session made more empty polls than the ceiling and goes on polling
C18_Witness ==
    /\ pc = "loop"
    /\ total_empty > max_empty_retries
    /\ received_items_count >= 1
    /\ empty_count >= 1

\* C19: when the loop reads the termination sentinel None it exits at once:
\* no event is emitted for it, the recovery is not started, no watchdog is
\* evaluated (the counters of the polls stay as they are, no reload), and
\* the accumulated state plays no part.
C19_SentinelExitsAtOnce ==
    [][(Takes /\ Head(queue).form = "none") =>
          /\ events' = events
          /\ pc' = "drain"
          /\ outcome' = "sentinel"
          /\ UNCHANGED <<textVars, pollVars, tallyVars, sideVars>>]_vars

\* the sentinel ended a session that was due for the recovery: reasoning
\* emitted, no answer, a page given
C19_Witness ==
    /\ pc = "finished"
    /\ outcome = "sentinel"
    /\ page
    /\ accumulated_reason_len > 0
    /\ accumulated_body_len = 0
    /\ wait_i = 0
    /\ DoneEvents = {}

\* C20: a string item that does not decode into a structured record is
\* passed to the consumer as one opaque text event; the accumulated state
\* is not touched and the session goes on.
C20_OpaqueTextPassedThrough ==
    [][(Takes /\ Head(queue).form = "text") =>
          /\ Len(events') = Len(events) + 1
          /\ events'[Len(events')].kind = "text"
          /\ UNCHANGED textVars
          /\ pc' = "loop"]_vars

\* C21: an empty poll at which the client is gone ends the session with
\* ClientDisconnectedError and no event, whatever watchdog threshold is
\* exceeded at that poll, and the drain has run when the generator has
\* finished with that error.
C21_DisconnectSkipsWatchdogs ==
    [][/\ (EmptyStep /\ client_gone') =>
              /\ outcome' = "ClientDisconnectedError"
              /\ events' = events
              /\ pc' = "drain"
       /\ (pc' = "finished" /\ outcome' = "ClientDisconnectedError") =>
              drain_runs' = 1]_vars

\* the silence check of line 546 holds at this poll
SilenceHolds ==
    /\ received_items_count >= min_items_before_silence_check
    /\ silent_for > silence_detection_threshold

\* C21, amended: the same, for the polls at which silence is not due: the
\* first-byte and ceiling checks are not reached, no event is emitted and
\* no reload is made.  A poll at which silence is due ends the session with
\* silence_detected without the client being looked at.
C21_DisconnectSkipsLaterWatchdogs ==
    [][/\ (EmptyStep /\ client_gone' /\ ~SilenceHolds) =>
              /\ outcome' = "ClientDisconnectedError"
              /\ events' = events
              /\ reload_count' = reload_count
              /\ pc' = "drain"
       /\ (EmptyStep /\ SilenceHolds) => EndsWith("silence_detected")
       /\ (outcome' = "ClientDisconnectedError" /\ outcome = "running") =>
              EmptyStep /\ client_gone' /\ ~SilenceHolds
       /\ (pc' = "finished" /\ outcome' = "ClientDisconnectedError") =>
              /\ drain_runs' = 1
              /\ queue' = <<>>]_vars

\* the client left at the poll at which the first-byte timeout was due
C21_Witness ==
    /\ pc = "finished"
    /\ outcome = "ClientDisconnectedError"
    /\ received_items_count = 0
    /\ empty_count >= initial_wait_limit
    /\ events = <<>>
    /\ reload_count = 0

\* the ways through an iteration that pass the disconnect check of lines
\* 552-558
ChecksClient(p) ==
    p \in {"disconnect", "ttfb", "ttfb_reload_failed", "ceiling",
           "ceiling_ui_active", "sleep"}

\* this step is an iteration of the loop that gets as far as the poll of
\* the source
Polls ==
    pc = "loop" /\ produced' = produced /\ ~quota_exceeded' /\ ~shutting_down'

\* C22: the disconnect check is made on every iteration of the poll loop,
\* those that read an item included.
C22_ClientCheckedEveryIteration ==
    [][Polls => ChecksClient(path')]_vars

\* C22, amended: the disconnect check is made on the iterations that find
\* the source empty and silence not due, and on no other; when it is made
\* and the client is gone, the session ends with ClientDisconnectedError.
C22_ClientCheckedOnEmptyPolls ==
    [][Polls =>
          /\ ChecksClient(path') <=> (EmptyStep /\ ~SilenceHolds)
          /\ (ChecksClient(path') /\ client_gone') =>
                 outcome' = "ClientDisconnectedError"
          /\ queue # <<>> => client_gone' = client_gone]_vars

\* the client was found gone at the first empty poll after an item
C22_Witness ==
    /\ path = "disconnect"
    /\ received_items_count >= 1
    /\ total_empty = 1
    /\ outcome = "ClientDisconnectedError"

\* C23: the two flags are read at the start of every iteration, before the
\* source is polled.  With the quota flag set the session ends by raising
\* QuotaExceededError and emits nothing; otherwise, with the shutdown flag
\* set, it emits one done=true event of cause global_shutdown and ends.
\* Neither path takes an item, counts a poll, evaluates a watchdog or
\* reloads; no other iteration ends in these two ways.
C23_FlagsCheckedFirst ==
    [][(pc = "loop" /\ produced' = produced) =>
          /\ quota_exceeded' =>
                /\ outcome' = "QuotaExceededError"
                /\ events' = events
                /\ pc' = "drain"
          /\ (~quota_exceeded' /\ shutting_down') => EndsWith("global_shutdown")
          /\ (quota_exceeded' \/ shutting_down') =>
                UNCHANGED <<queue, textVars, pollVars, tallyVars, sideVars,
                            client_gone>>
          /\ outcome' = "QuotaExceededError" => quota_exceeded'
          /\ outcome' = "global_shutdown" => ~quota_exceeded' /\ shutting_down']_vars

\* both flags were set with an item waiting: the quota error won, the item
\* was left for the drain
C23_Witness ==
    /\ pc = "drain"
    /\ outcome = "QuotaExceededError"
    /\ quota_exceeded
    /\ shutting_down
    /\ queue # <<>>
    /\ events = <<>>

\* C24: a reload that fails on the first-byte timeout is swallowed: the
\* step still emits the done=true event of cause ttfb_timeout and leaves
\* the loop without raising; a recovery probe that fails is swallowed: the
\* step emits nothing, raises nothing and the session ends as done.
C24_HookFailuresSwallowed ==
    [][/\ (pc = "loop" /\ path' = "ttfb_reload_failed") =>
              /\ EndsWith("ttfb_timeout")
              /\ outcome' \notin Raised
       /\ (pc = "recovery" /\ path' = "recovery_error") =>
              /\ events' = events
              /\ outcome' = "done"
              /\ pc' = "drain"]_vars

\* a session that finished as done after its recovery probe had failed
C24_Witness ==
    /\ pc = "finished"
    /\ path = "recovery_error"
    /\ outcome = "done"
    /\ events # <<>>
    /\ events[Len(events)].done

\* the events yielded so far for accepted fragments
FragmentEvents == { i \in 1..Len(events) : events[i].kind = "fragment" }

\* C25: over the events emitted for the accepted fragments of a session
\* the length of body never decreases, and from the event of the
\* transition to ANSWERING on the reason is the same in every event: the
\* event of a fragment has a body at least as long as every fragment event
\* before it and, when the mode was ANSWERING already, the reason of the
\* fragment event before it.
C25_BodyGrowsReasonFrozen ==
    [][(Takes /\ IsFragment(Head(queue))) =>
          LET e == events'[Len(events')] IN
          /\ \A i \in FragmentEvents : Len(events[i].body) <= Len(e.body)
          /\ force_body_mode =>
                \A i \in FragmentEvents :
                    (\A j \in FragmentEvents : j <= i) => e.reason = events[i].reason
      ]_vars

\* the second of three fragments brought the marker, the third more text:
\* the reason stayed, the body grew
C25_Witness ==
    /\ Len(events) = 3
    /\ FragmentEvents = 1..3
    /\ force_body_mode
    /\ events[1].body = <<>>
    /\ events[2].reason # <<>>
    /\ events[3].reason = events[2].reason
    /\ Len(events[3].body) > Len(events[2].body)
    /\ Len(events[2].body) > 0

\* the fragment event emitted last, if there is one
LastFragmentEvent ==
    { i \in FragmentEvents : \A j \in FragmentEvents : j <= i }

\* C26: the length of the reason field never decreases from one fragment
\* event to the next, the event on which the boundary is detected included.
C26_ReasonNeverShrinks ==
    [][(Takes /\ IsFragment(Head(queue))) =>
          \A i \in LastFragmentEvent :
              Len(events[i].reason) <= Len(events'[Len(events')].reason)]_vars

\* C26 (amended): the length of the reason field never decreases from one
\* fragment event to the next except on the event on which the boundary is
\* detected: there the reason is cut back to the text before the split,
\* which may be shorter than a reason emitted earlier.
C26_ReasonShrinksOnlyAtSplit ==
    [][(Takes /\ IsFragment(Head(queue))) =>
          LET e == events'[Len(events')] IN
          /\ (~force_body_mode /\ force_body_mode') =>
                e.reason = SliceTo(acc_reason_state', split_index')
          /\ ~(~force_body_mode /\ force_body_mode') =>
                \A i \in LastFragmentEvent : Len(events[i].reason) <= Len(e.reason)
      ]_vars

\* the boundary was detected on the second fragment, whose reason is
\* shorter than the reason emitted for the first
C26_Witness ==
    /\ Len(events) = 2
    /\ FragmentEvents = 1..2
    /\ force_body_mode
    /\ events[1].body = <<>>
    /\ Len(events[2].reason) < Len(events[1].reason)
    /\ events[2].reason # <<>>

\* the arguments fragments of the chunks k..Len(chunks), concatenated
RECURSIVE FragmentsFrom(_)
FragmentsFrom(k) ==
    IF k > Len(chunks) THEN <<>>
    ELSE chunks[k]["function"]["arguments"] \o FragmentsFrom(k + 1)

\* C27: format_streaming_chunks(index, call, chunk_size) with
\* chunk_size >= 1 returns a first chunk that carries index, id, type
\* "function" and the function name and no arguments, then chunks that
\* carry the same index and one arguments fragment each, of 1 to chunk_size
\* characters; the fragments concatenated in order are the JSON
\* serialisation of the call's arguments.
C27_StreamingChunks ==
    pc = "formatted" =>
        /\ Len(chunks) >= 1
        /\ DOMAIN chunks[1] = {"index", "id", "type", "function"}
        /\ chunks[1]["index"] = f_index
        /\ chunks[1]["id"] \in CallIds
        /\ chunks[1]["type"] = "function"
        /\ DOMAIN chunks[1]["function"] = {"name"}
        /\ chunks[1]["function"]["name"] = parsed_call.name
        /\ \A k \in 2..Len(chunks) :
              /\ DOMAIN chunks[k] = {"index", "function"}
              /\ chunks[k]["index"] = f_index
              /\ DOMAIN chunks[k]["function"] = {"arguments"}
              /\ Len(chunks[k]["function"]["arguments"]) \in 1..chunk_size
        /\ FragmentsFrom(2) = json_dumps(parsed_call.arguments)

\* {"a": "SF"} was cut in pieces of three characters: {"a / ": / "SF / "}
C27_Witness ==
    /\ pc = "formatted"
    /\ chunk_size = 3
    /\ parsed_call.arguments = << <<(<<"a">>), JStr(<<"S", "F">>)>> >>
    /\ Len(chunks) = 5
    /\ chunks[2]["function"]["arguments"] = <<"{", "\"", "a">>
    /\ chunks[3]["function"]["arguments"] = <<"\"", ":", " ">>
    /\ chunks[4]["function"]["arguments"] = <<"\"", "S", "F">>
    /\ chunks[5]["function"]["arguments"] = <<"\"", "}">>

\* a dict whose type is "function"
IsFunctionTool(tool) == IsDict(tool) /\ Get(tool, "type") = PyStr("function")

\* the declarations of the tools of a list, in order
RECURSIVE DeclarationsOf(_)
DeclarationsOf(tools) ==
    IF tools = <<>> THEN <<>>
    ELSE <<convert_tool(Head(tools)).value>> \o DeclarationsOf(Tail(tools))

\* a list of well-formed function tools and of dicts of other types, with
\* one of each at least
MixedTools ==
    /\ \A i \in 1..Len(openai_tools) :
          /\ IsDict(openai_tools[i])
          /\ IsFunctionTool(openai_tools[i]) => ~convert_tool(openai_tools[i]).raised
    /\ \E i \in 1..Len(openai_tools) : IsFunctionTool(openai_tools[i])
    /\ \E i \in 1..Len(openai_tools) : ~IsFunctionTool(openai_tools[i])

\* C28: convert_tools ignores the tools whose type is not "function": for
\* a list that mixes function tools and tools of other types it raises
\* nothing and returns the declarations of the function tools, in the
\* order of the input.
C28_NonFunctionToolsIgnored ==
    (pc = "converted" /\ MixedTools) =>
        /\ convert_result = "returned"
        /\ declarations = DeclarationsOf(SelectSeq(openai_tools, IsFunctionTool))

\* the new value of an accumulator as C29 states it: the incoming value
\* replaces a non-empty old value it begins with, and is appended otherwise
Reconciled(old, incoming) ==
    IF /\ incoming # <<>>
       /\ old # <<>>
       /\ Len(incoming) >= Len(old)
       /\ \A i \in 1..Len(old) : incoming[i] = old[i]
    THEN incoming
    ELSE old \o incoming

\* C29: on every accepted fragment the accumulated reason and the
\* accumulated body are updated each by the same rule, independently: a
\* non-empty incoming value that starts with the non-empty accumulated
\* value replaces it; in every other case (an unrelated value, a proper
\* prefix of the accumulated value) the incoming value is appended.
C29_ReconcilerUpdate ==
    [][(Takes /\ IsFragment(Head(queue))) =>
          /\ acc_reason_state' = Reconciled(acc_reason_state, Head(queue).reason)
          /\ acc_body_state' = Reconciled(acc_body_state, Head(queue).body)]_vars

\* the snapshot "a\n" replaced "a"; then "a" came again, a proper prefix
\* of the accumulated text, and was appended
C29_Witness ==
    /\ received_items_count = 3
    /\ logical = <<"a", "a", "LF", "a">>
    /\ acc_reason_state = <<"a", "LF", "a">>

\* C30: when a reason value is taken as a cumulative snapshot, the
\* effective delta given to the boundary scan is the suffix of the incoming
\* value beyond the length the accumulated reason had before it was
\* replaced.
C30_SnapshotDeltaIsNewSuffix ==
    [][(/\ Takes
        /\ IsFragment(Head(queue))
        /\ IsSnapshot(acc_reason_state, Head(queue).reason))
       => NewReasonDelta(acc_reason_state, Head(queue).reason)
            = SliceFrom(Head(queue).reason, Len(acc_reason_state))]_vars

\* a marker of t stands at the start of a line and the offset s (0-based)
\* points at it or into the blanks in front of it
SplitsAtMarker(t, s) ==
    /\ s >= 0
    /\ \E k \in (s + 1)..Len(t) :
          /\ MarkerBegins(t, k)
          /\ AllSpace(t, s + 1, k)
          /\ \A j \in 1..(k - 1) : ~MarkerBegins(t, j)

\* C31: whenever the detector fires, split_index is the offset in
\* acc_reason_state of the earliest marker, and that marker stands at the
\* start of a line of acc_reason_state (the split may take the blanks and
\* the line end in front of the marker with it); a tag in the middle of a
\* line never fires the detector, and the offset is exact after a snapshot.
C31_SplitAtLineStartMarker ==
    [][(Takes /\ IsFragment(Head(queue)) /\ ~force_body_mode /\ force_body_mode')
       => SplitsAtMarker(acc_reason_state', split_index')]_vars

\* C32: from the transition on split_index never changes, and the event of
\* every accepted fragment has reason = acc_reason_state[:split_index] and
\* body = acc_body_state + acc_reason_state[split_index:]; before the
\* transition the event has reason = acc_reason_state and
\* body = acc_body_state.
C32_SplitFormula ==
    [][/\ force_body_mode => split_index' = split_index
       /\ (Takes /\ IsFragment(Head(queue))) =>
             LET e == events'[Len(events')] IN
             IF force_body_mode'
             THEN /\ e.reason = SliceTo(acc_reason_state', split_index')
                  /\ e.body = acc_body_state'
                                \o SliceFrom(acc_reason_state', split_index')
             ELSE /\ e.reason = acc_reason_state'
                  /\ e.body = acc_body_state']_vars

\* after the transition a body fragment came: the event holds the body
\* text followed by the reasoning text behind the split
C32_Witness ==
    /\ Len(events) = 3
    /\ FragmentEvents = 1..3
    /\ force_body_mode
    /\ split_index > 0
    /\ split_index < Len(acc_reason_state)
    /\ acc_body_state # <<>>
    /\ events[2].body = SliceFrom(acc_reason_state, split_index)
    /\ events[3].body = acc_body_state \o SliceFrom(acc_reason_state, split_index)
    /\ events[3].reason = SliceTo(acc_reason_state, split_index)

\* C33: split_index is -1 in every state where the mode is THINKING, and
\* in every state where the mode is ANSWERING it lies between 0 and the
\* length of acc_reason_state.
C33_SplitIndexDefined ==
    IF force_body_mode
    THEN split_index >= 0 /\ split_index <= Len(acc_reason_state)
    ELSE split_index = -1

\* the marker was completed by the second fragment and began in the window
\* kept from the first: the split lies at offset 0
C33_Witness ==
    /\ force_body_mode
    /\ received_items_count = 2
    /\ split_index = 0
    /\ events[1].reason # <<>>
    /\ events[2].reason = <<>>

\* C34: while the mode is THINKING, boundary_buffer is never longer than
\* the window and equals the trailing characters of acc_reason_state (all
\* of it while it is shorter than the window), whichever mix of deltas and
\* snapshots produced it.
C34_WindowIsTailOfReason ==
    ~force_body_mode =>
        /\ Len(boundary_buffer) <= WindowLen
        /\ boundary_buffer = LastChars(acc_reason_state, WindowLen)

C36_NoSilentHang == <>(pc = "finished")

\* a session that received one item, no done fragment and no sentinel, and
\* was ended by the ceiling
C36_Witness ==
    /\ pc = "finished"
    /\ outcome = "internal_timeout"
    /\ received_items_count = 1
    /\ received_items_count < min_items_before_silence_check
    /\ DoneEvents = {Len(events)}
    /\ Len(events) <= 2

\* the text of the items put before the second call is told by its letter
HasOldText(t) == \E i \in 1..Len(t) : t[i] = "x"

\* C37: in the second of two consecutive sessions on the same source,
\* nothing of a fragment enqueued before the session's start is in the
\* accumulated state or in an emitted event, whether the fragment was
\* wrapped or not
C37_NoLeakIntoSecondSession ==
    session = 2 =>
        /\ ~HasOldText(acc_reason_state)
        /\ ~HasOldText(acc_body_state)
        /\ \A i \in 1..Len(events) :
              ~HasOldText(events[i].reason) /\ ~HasOldText(events[i].body)

\* the suffixes of t: what a split can move to the body
Suffixes(t) == { SliceFrom(t, k) : k \in 0..Len(t) }

\* C38: the event of every accepted fragment, in either mode, conserves the
\* text: some suffix of acc_reason_state (empty while THINKING) is moved,
\* the emitted reason followed by it is acc_reason_state, the emitted body
\* is acc_body_state followed by it, and so the two emitted lengths add up
\* to the two accumulated lengths; nothing is lost and nothing is doubled.
C38_ContentConserved ==
    [][(Takes /\ IsFragment(Head(queue))) =>
          LET e == events'[Len(events')] IN
          /\ \E moved \in Suffixes(acc_reason_state') :
                /\ e.reason \o moved = acc_reason_state'
                /\ e.body = acc_body_state' \o moved
                /\ ~force_body_mode' => moved = <<>>
          /\ Len(e.reason) + Len(e.body)
                = Len(acc_reason_state') + Len(acc_body_state')]_vars

\* a split inside the reasoning text, with body text of its own: the last
\* event carries both parts, each character once
C38_Witness ==
    /\ force_body_mode
    /\ split_index > 0
    /\ split_index < Len(acc_reason_state)
    /\ acc_body_state # <<>>
    /\ LastFragmentEvent # {}
    /\ \A i \in LastFragmentEvent :
          /\ events[i].reason # <<>>
          /\ events[i].reason \o SliceFrom(acc_reason_state, split_index)
                = acc_reason_state
          /\ Len(events[i].body) > Len(acc_body_state)
          /\ Len(events[i].reason) + Len(events[i].body)
                = Len(acc_reason_state) + Len(acc_body_state)

\* an item other than the sentinel leaves the queue for the loop
TakesItem == Takes /\ Head(queue).form # "none"

\* C39: every item the loop takes other than the sentinel, a stale wrapped
\* one and a dropped one included, adds one to received_items_count, sets
\* empty_count to 0 and restarts the silence clock; the count never goes
\* down, so ttfb_timeout ends a session only when no item was read, and an
\* empty done is ignored as residue only when it is the first item read.
C39_EveryItemCounts ==
    [][/\ TakesItem =>
             /\ received_items_count' = received_items_count + 1
             /\ empty_count' = 0
             /\ silent_for' = 0
       /\ received_items_count' >= received_items_count
       /\ (outcome' = "ttfb_timeout" /\ outcome # "ttfb_timeout")
             => received_items_count = 0
       /\ (stale_done_ignored' /\ ~stale_done_ignored)
             => received_items_count = 0 /\ received_items_count' = 1]_vars

\* an item without an event (stale or dropped) was read first, after some
\* empty polls; the empty done that followed ended the session
C39_Witness ==
    /\ outcome = "done"
    /\ received_items_count = 2
    /\ total_empty >= 1
    /\ ~has_content
    /\ ~stale_done_ignored
    /\ Len(events) = 1
    /\ events[1] = Event("fragment", <<>>, <<>>, TRUE)

====
